---- MODULE Spec2Model ----
(***************************************************************************)
(* Model of PackageAnalyzer (src/main.py): the run of main (load_config,    *)
(* run_analysis), the registry-mode graph build (_build_graph_from_npm),   *)
(* the test-mode graph load (_build_graph_from_file), the version resolver *)
(* (resolve_version_range), the package-info fetch (get_npm_package_info)  *)
(* and the graph queries (detect_cycles, find_reverse_dependencies).       *)
(*                                                                         *)
(* Strings are sequences of one-character strings, so that the range test  *)
(* of the code (any(char in version for char in '^~><|')) and the key      *)
(* format f"{package}@{version}" are computed as the code computes them.   *)
(* A published version is one digit, standing for the semantic version     *)
(* <digit>.0.0; any other token is not a valid semantic version.           *)
(***************************************************************************)
EXTENDS Naturals, Sequences, FiniteSets, TLC

(***************************************************************************)
(* Bounds of the model.                                                    *)
(***************************************************************************)
\* longest dependency mapping a manifest of the registry declares
MaxDeps == 2

\* dependencies the manifests of the registry declare, all together
MaxDeclared == 4

\* requests of one run that fail in transport (network, HTTP status, parse)
MaxFailures == 1

\* edges of a graph loaded from a test file, all together
MaxEdges == 2

\* package names of the registry
Names == { <<"a">>, <<"b">> }

\* versions the registry may publish and tag
Versions == { <<"1">>, <<"2">> }

\* specifiers a manifest may declare for a dependency
DepSpecs == { <<"1">>, <<"^", "1">> }

\* the root package of the configuration, and the specifiers it may give
RootNames == { <<"a">> }

RootSpecs == { <<"1">>, <<"^", "1">> }

\* specifiers and published version keys resolve_version_range is called
\* with on its own; "x" is a version key that is no semantic version
DirectSpecs == { <<"1">>, <<"^", "1">>, <<">", "1">>, <<">", "2">>, <<"<", "2">> }

DirectVersions == { <<"1">>, <<"2">>, <<"x">> }

\* package names of a graph loaded from a test file
Nodes == { <<"A">>, <<"B">>, <<"C">> }

\* what opening and parsing the test file of repository_url may give
RepositoryStatuses == { "missing", "unparsable", "ok" }

(***************************************************************************)
(* Strings, keys and Python dicts.                                         *)
(***************************************************************************)
\* '^~><|' of lines 145 and 159
RangeChars == { "^", "~", ">", "<", "|" }

\* IsRange with the test reduced to the truth of the string
IsRangeNonEmpty(version) == version # <<>>

\* any(char in version for char in '^~><|')
IsRange(version) == \E i \in DOMAIN version : version[i] \in RangeChars

\* the elements of a list
Elements(list) == { list[i] : i \in DOMAIN list }

\* f"{package}@{version}"
PackageKey(package, version) == package \o <<"@">> \o version

\* A dict keeps its keys in insertion order: a sequence of <<key, value>>.
DictKeys(d) == { d[i][1] : i \in DOMAIN d }

DictGet(d, k, default) ==
    IF k \in DictKeys(d)
    THEN d[CHOOSE i \in DOMAIN d : d[i][1] = k][2]
    ELSE default

\* DictSet on a dict that is created anew for the assignment
DictSetAnew(d, k, v) == << <<k, v>> >>

\* d[k] = v : overwrite in place, or insert at the end
DictSet(d, k, v) ==
    IF k \in DictKeys(d)
    THEN [i \in DOMAIN d |-> IF d[i][1] = k THEN <<k, v>> ELSE d[i]]
    ELSE Append(d, <<k, v>>)

(***************************************************************************)
(* The semver library, as resolve_version_range uses it.                   *)
(***************************************************************************)
DigitValue ==
    ("0" :> 0) @@ ("1" :> 1) @@ ("2" :> 2) @@ ("3" :> 3) @@ ("4" :> 4) @@
    ("5" :> 5) @@ ("6" :> 6) @@ ("7" :> 7) @@ ("8" :> 8) @@ ("9" :> 9)

\* semver.VersionInfo.parse(v) succeeds
SemverValid(v) == Len(v) = 1 /\ v[1] \in DOMAIN DigitValue

\* the precedence of a valid version
SemverValue(v) == DigitValue[v[1]]

\* versions.sort(key=lambda v: semver.VersionInfo.parse(v), reverse=True),
\* for versions that all parse
RECURSIVE SortNewestFirst(_)
SortNewestFirst(S) ==
    IF S = {} THEN <<>>
    ELSE LET newest == CHOOSE v \in S : \A w \in S : SemverValue(w) <= SemverValue(v)
         IN  <<newest>> \o SortNewestFirst(S \ {newest})

\* semver.match(version, match_expr): "yes", "no", or "raise" (ValueError).
\* The expression is a comparison operator followed by a version; an
\* expression starting with a digit means ==; anything else, a caret or a
\* tilde included, is rejected.
SemverMatch(version, match_expr) ==
    LET prefix2 == SubSeq(match_expr, 1, IF Len(match_expr) < 2 THEN Len(match_expr) ELSE 2)
        two     == prefix2 \in { <<">", "=">>, <<"<", "=">>, <<"=", "=">>, <<"!", "=">> }
        one     == ~two /\ match_expr # <<>> /\ match_expr[1] \in { ">", "<" }
        bare    == ~two /\ ~one /\ match_expr # <<>> /\ match_expr[1] \in DOMAIN DigitValue
        operand == IF two THEN SubSeq(match_expr, 3, Len(match_expr))
                   ELSE IF one THEN SubSeq(match_expr, 2, Len(match_expr))
                   ELSE match_expr
        op      == IF two THEN prefix2 ELSE IF one THEN <<match_expr[1]>> ELSE <<"=", "=">>
        a       == SemverValue(version)
        b       == SemverValue(operand)
        holds   == CASE op = <<">">>      -> a > b
                     [] op = <<"<">>      -> a < b
                     [] op = <<">", "=">> -> a >= b
                     [] op = <<"<", "=">> -> a <= b
                     [] op = <<"=", "=">> -> a = b
                     [] op = <<"!", "=">> -> a # b
    IN  IF ~SemverValid(version) THEN "raise"
        ELSE IF ~(two \/ one \/ bare) THEN "raise"
        ELSE IF ~SemverValid(operand) THEN "raise"
        ELSE IF holds THEN "yes" ELSE "no"

(***************************************************************************)
(* resolve_version_range (lines 115-134).                                  *)
(*                                                                         *)
(* A response of the registry to GET /{package_name}:                      *)
(*   status   "exception" (requests.get or response.json() raises),       *)
(*            "http_error" (status_code # 200) or "ok";                    *)
(*   latest   data['dist-tags']['latest'], NoTag when there is none;       *)
(*   versions the keys of data['versions'].                                *)
(* A result is [raised, value]: raised tells that an exception leaves the  *)
(* code, value is what is returned otherwise.                              *)
(***************************************************************************)
NoTag == <<>>

ResolveStatuses == { "exception", "http_error", "ok" }

Returns(value) == [raised |-> FALSE, value |-> value]

Raises == [raised |-> TRUE, value |-> <<>>]

\* lines 124-130: the first version, newest first, that matches; a match
\* that raises skips the version (bare except: continue); without a match
\* the newest version, and the range itself when there is no version
RECURSIVE FirstMatch(_, _, _)
FirstMatch(versions, i, version_range) ==
    IF i > Len(versions)
    THEN IF versions # <<>> THEN versions[1] ELSE version_range
    ELSE IF SemverMatch(versions[i], version_range) = "yes"
         THEN versions[i]
         ELSE FirstMatch(versions, i + 1, version_range)

\* ResolveBody with the range matched before the tag is looked at
ResolveBodyRangeFirst(response, version_range) ==
    IF response.status = "exception" THEN Raises
    ELSE IF response.status # "ok" THEN Returns(version_range)
    ELSE IF \E v \in response.versions : ~SemverValid(v) THEN Raises
    ELSE IF \E v \in response.versions : SemverMatch(v, version_range) = "yes"
         THEN Returns(FirstMatch(SortNewestFirst(response.versions), 1, version_range))
    ELSE IF response.latest # NoTag THEN Returns(response.latest)
    ELSE Returns(FirstMatch(SortNewestFirst(response.versions), 1, version_range))

\* lines 117-131, the body of the try
ResolveBody(response, version_range) ==
    IF response.status = "exception" THEN Raises
    ELSE IF response.status # "ok" THEN Returns(version_range)
    ELSE IF response.latest # NoTag THEN Returns(response.latest)
    ELSE IF \E v \in response.versions : ~SemverValid(v) THEN Raises
    ELSE Returns(FirstMatch(SortNewestFirst(response.versions), 1, version_range))

\* ResolveExcept without the handler of lines 132-134
ResolveExceptMissing(body, version_range) == body

\* lines 132-134: except Exception: return version_range
ResolveExcept(body, version_range) ==
    IF body.raised THEN Returns(version_range) ELSE body

resolve_version_range(response, version_range) ==
    ResolveExcept(ResolveBody(response, version_range), version_range)

(***************************************************************************)
(* get_npm_package_info (lines 57-70).                                     *)
(*                                                                         *)
(* A response of the registry to GET /{package_name}:                      *)
(*   status   "exception" (urlopen or json.loads raises something that is  *)
(*            no HTTPError), "http_404", "http_error" (another HTTPError)  *)
(*            or "ok";                                                     *)
(*   versions the keys of data['versions'];                                *)
(*   manifest the dependencies data['versions'][version] declares, as a    *)
(*            sequence of <<name, specifier>> in declaration order.        *)
(* A result is [raised, message, info]: raised is the class of the         *)
(* exception that leaves the code, "none" when the manifest is returned.   *)
(***************************************************************************)
FetchStatuses == { "exception", "http_404", "http_error", "ok" }

InfoReturns(info) == [raised |-> "none", message |-> <<>>, info |-> info]

InfoRaises(class, message) == [raised |-> class, message |-> message, info |-> <<>>]

\* lines 59-64, the body of the try
InfoBody(response, version) ==
    CASE response.status = "http_404"   -> InfoRaises("HTTPError", <<"404">>)
      [] response.status = "http_error" -> InfoRaises("HTTPError", <<"reason">>)
      [] response.status = "exception"  -> InfoRaises("Exception", <<"transport">>)
      [] response.status = "ok" ->
            IF version \notin response.versions
            THEN InfoRaises("DependencyError", <<"version">> \o version \o <<"not found">>)
            ELSE InfoReturns(response.manifest)

\* InfoExcept without the clause of line 69 (except Exception)
InfoExceptHttpOnly(body) ==
    CASE body.raised = "HTTPError" ->
            IF body.message = <<"404">>
            THEN InfoRaises("DependencyError", <<"package not found">>)
            ELSE InfoRaises("DependencyError", <<"http error">> \o body.message)
      [] OTHER -> body

\* lines 65-70: an HTTPError and any other exception of the body, the
\* DependencyError of line 63 included, leave as a DependencyError
InfoExcept(body) ==
    CASE body.raised = "none"      -> body
      [] body.raised = "HTTPError" ->
            IF body.message = <<"404">>
            THEN InfoRaises("DependencyError", <<"package not found">>)
            ELSE InfoRaises("DependencyError", <<"http error">> \o body.message)
      [] OTHER -> InfoRaises("DependencyError", <<"fetch error">> \o body.message)

get_npm_package_info(response, version) == InfoExcept(InfoBody(response, version))

(***************************************************************************)
(* State.                                                                  *)
(*                                                                         *)
(* The registry is fixed during a run and unknown to the program: the      *)
(* model keeps the part of it that the program has read so far, and a      *)
(* request reads either what an earlier request has read or, for a part    *)
(* read for the first time, any value.                                     *)
(***************************************************************************)
VARIABLES
    pc,                    \* position of the operation under way
    config_file,           \* the configuration file: [exists, params]
    repository,            \* the test file of repository_url: [status, graph]
    config,                \* self.config: package_name, package_version,
                           \* test_repo_mode, as the configuration file gives them
    self_dependencies,     \* self.dependencies
    extract_calls,         \* the calls of get_npm_package_info by
                           \* extract_dependencies, in order
    analysis_cycles,       \* what detect_cycles has returned: <<>>, or <<result>>
    exported,              \* save_d2_diagram has written the diagram file
    exit_status,           \* <<>> while the process runs, else <<status>>
    dependency_graph,      \* self.dependency_graph, a dict key -> list of keys
    stack,                 \* the work stack of (package, version) pairs
    visited,               \* the set of package keys already popped
    package,               \* locals of _build_graph_from_npm
    version,
    package_key,
    dependencies,          \* the dependency mapping being iterated
    dep_i,                 \* position of the for loop in dependencies
    resolved_dependencies,
    resolved_dep_version,  \* <<>> while the local is unbound, else <<value>>
    dist_tags,             \* registry read so far: name -> latest tag or NoTag
    published,             \* registry read so far: name -> set of versions
    manifests,             \* registry read so far: key -> declared dependencies
    failures,              \* requests that failed in transport so far
    info_calls,            \* the calls of get_npm_package_info, in order
    resolve_calls,         \* the calls of resolve_version_range, in order
    direct,                \* resolve_version_range called on its own: <<>>, or
                           \* <<[package_name, version_range, response, result]>>
    fetched,               \* get_npm_package_info called on its own: <<>>, or
                           \* <<[package_name, version, response, result]>>
    reverse_deps           \* what find_reverse_dependencies has returned

registry == <<dist_tags, published, manifests, failures>>

locals == <<package, version, package_key, dependencies, dep_i,
            resolved_dependencies, resolved_dep_version>>

build == <<dependency_graph, stack, visited, locals, registry, info_calls, resolve_calls>>

\* the files the run reads, and the configuration loaded from them
files == <<config_file, repository, config>>

\* what run_analysis and main add to the state of the analyzer
run == <<self_dependencies, extract_calls, analysis_cycles, exported, exit_status>>

\* the calls of resolve_version_range and get_npm_package_info on their own
own_calls == <<direct, fetched>>

vars == <<pc, files, run, build, own_calls, reverse_deps>>

\* the dependency mappings a manifest may declare: at most MaxDeps names,
\* each once (a dict), in declaration order
DepLists ==
    { d \in UNION { [1..n -> Names \X DepSpecs] : n \in 0..MaxDeps } :
        \A i, j \in DOMAIN d : i # j => d[i][1] # d[j][1] }

\* the dependencies declared by the manifests in m, all together
RECURSIVE Declared(_)
Declared(m) ==
    IF DOMAIN m = {} THEN 0
    ELSE LET k == CHOOSE x \in DOMAIN m : TRUE
         IN  Len(m[k]) + Declared([x \in DOMAIN m \ {k} |-> m[x]])

\* the statuses a request may end with
Statuses(all) == IF failures < MaxFailures THEN all ELSE {"ok"}

\* a request that does not end "ok" has failed in transport
Failed(response) ==
    failures' = IF response.status = "ok" THEN failures ELSE failures + 1

\* the responses to the request of resolve_version_range for a package
ResolveResponses(name) ==
    { [status |-> s, latest |-> NoTag, versions |-> {}] :
        s \in Statuses(ResolveStatuses) \ {"ok"} }
    \cup
    { [status |-> "ok", latest |-> l, versions |-> vs] :
        l  \in (IF name \in DOMAIN dist_tags THEN {dist_tags[name]} ELSE {NoTag} \cup Versions),
        vs \in (IF name \in DOMAIN published THEN {published[name]} ELSE SUBSET Versions) }

\* what resolve_version_range reads of the response: the tag, and the
\* version list when there is no tag
ResolveReads(name, response) ==
    /\ dist_tags' = IF response.status = "ok"
                    THEN (name :> response.latest) @@ dist_tags ELSE dist_tags
    /\ published' = IF response.status = "ok" /\ response.latest = NoTag
                    THEN (name :> response.versions) @@ published ELSE published
    /\ UNCHANGED manifests
    /\ Failed(response)

\* the responses to the request of get_npm_package_info for a package version
FetchResponses(name, ver) ==
    { [status |-> s, versions |-> {}, manifest |-> <<>>] :
        s \in Statuses(FetchStatuses) \ {"ok"} }
    \cup
    { [status |-> "ok", versions |-> vs, manifest |-> m] :
        vs \in (IF name \in DOMAIN published THEN {published[name]} ELSE SUBSET Versions),
        m  \in (IF PackageKey(name, ver) \in DOMAIN manifests
                THEN {manifests[PackageKey(name, ver)]}
                ELSE { d \in DepLists : Len(d) + Declared(manifests) <= MaxDeclared }) }

\* what get_npm_package_info reads of the response: the version list, and
\* the manifest of the version when it is published
FetchReads(name, ver, response) ==
    /\ published' = IF response.status = "ok"
                    THEN (name :> response.versions) @@ published ELSE published
    /\ manifests' = IF response.status = "ok" /\ ver \in response.versions
                    THEN (PackageKey(name, ver) :> response.manifest) @@ manifests
                    ELSE manifests
    /\ UNCHANGED dist_tags
    /\ Failed(response)

(***************************************************************************)
(* The files of a run, __init__ (lines 20-31), load_config (lines 34-46)   *)
(* and main (lines 374-388).                                               *)
(***************************************************************************)
\* line 24-31
required_params ==
    << "package_name", "repository_url", "test_repo_mode", "package_version",
       "output_filename", "ascii_tree_mode" >>

\* the sequences of at most n names
ListsUpTo(n) == UNION { [1..m -> Nodes] : m \in 0..n }

\* the dicts with the keys of keys, in that order, and at most n edges
RECURSIVE GraphsOver(_, _)
GraphsOver(keys, n) ==
    IF keys = <<>> THEN { <<>> }
    ELSE UNION { { << <<Head(keys), l>> >> \o g : g \in GraphsOver(Tail(keys), n - Len(l)) } :
                 l \in ListsUpTo(n) }

\* the orders in which a file may list some of the names as keys
KeyOrders ==
    { k \in UNION { [1..m -> Nodes] : m \in 0..Cardinality(Nodes) } :
        \A i, j \in DOMAIN k : i # j => k[i] # k[j] }

\* the lists that name some of the other nodes, each once, in any order
OthersOf(node) ==
    { l \in UNION { [1..m -> Nodes \ {node}] : m \in 0..Cardinality(Nodes \ {node}) } :
        \A i, j \in DOMAIN l : i # j => l[i] # l[j] }

\* the graphs without self-loop and duplicate edge in which every node is a
\* key, up to the complete graph, with every ordering of the lists
SimpleGraphs ==
    { << <<(<<"A">>), la>>, <<(<<"B">>), lb>>, <<(<<"C">>), lc>> >> :
        la \in OthersOf(<<"A">>), lb \in OthersOf(<<"B">>), lc \in OthersOf(<<"C">>) }

\* what a test file may hold: any dict of at most MaxEdges edges, and the
\* simple graphs
FileGraphs == UNION { GraphsOver(k, MaxEdges) : k \in KeyOrders } \cup SimpleGraphs

\* the configurations of a run against the registry
RegistryConfigs ==
    [package_name : RootNames, package_version : RootSpecs, test_repo_mode : {FALSE}]

\* the configurations of a run in test mode
TestConfigs ==
    [package_name : Nodes, package_version : {<<"1">>}, test_repo_mode : {TRUE}]

\* the configuration files: one that does not exist, and the existing ones
\* by the required parameters they give a value to
ConfigFiles ==
    { [exists |-> FALSE, params |-> {}] }
    \cup
    { [exists |-> TRUE, params |-> ps] : ps \in SUBSET Elements(required_params) }

\* line 44: [p for p in self.required_params if p not in self.config]
missing_params(file) ==
    SelectSeq(required_params, LAMBDA p : p \notin file.params)

\* the configuration file is loaded without a ConfigError
Loads(file) == file.exists /\ missing_params(file) = <<>>

Init ==
    /\ pc = "main"
    /\ config_file \in ConfigFiles
    /\ config \in RegistryConfigs \cup TestConfigs
    /\ repository \in
          IF ~config.test_repo_mode
          THEN { [status |-> "url", graph |-> <<>>] }
          ELSE { [status |-> s, graph |-> <<>>] : s \in RepositoryStatuses \ {"ok"} }
               \cup
               { [status |-> "ok", graph |-> g] :
                   g \in IF Loads(config_file) THEN FileGraphs ELSE { <<>> } }
    /\ self_dependencies = <<>>
    /\ extract_calls = <<>>
    /\ analysis_cycles = <<>>
    /\ exported = FALSE
    /\ exit_status = <<>>
    /\ dependency_graph = <<>>
    /\ stack = <<>>
    /\ visited = {}
    /\ package = <<>>
    /\ version = <<>>
    /\ package_key = <<>>
    /\ dependencies = <<>>
    /\ dep_i = 1
    /\ resolved_dependencies = <<>>
    /\ resolved_dep_version = <<>>
    /\ dist_tags = <<>>
    /\ published = <<>>
    /\ manifests = <<>>
    /\ failures = 0
    /\ info_calls = <<>>
    /\ resolve_calls = <<>>
    /\ direct = <<>>
    /\ fetched = <<>>
    /\ reverse_deps = <<>>

\* lines 383-388: main reports the exception and exits with status 1
MainFails ==
    /\ pc' = "exit"
    /\ exit_status' = <<1>>

\* lines 34-46, called by main (line 380): a ConfigError when the file does
\* not exist or a required parameter has no value
load_config ==
    /\ pc = "main"
    /\ IF Loads(config_file)
       THEN pc' = "start" /\ UNCHANGED exit_status
       ELSE MainFails
    /\ UNCHANGED <<files, self_dependencies, extract_calls, analysis_cycles, exported, build,
                   own_calls, reverse_deps>>

(***************************************************************************)
(* extract_dependencies (lines 73-85), the first step of run_analysis.     *)
(***************************************************************************)
\* line 76: the placeholder of the test mode
FromTestFile == << <<"dependencies are loaded from the test file">> >>

\* line 85: the placeholder of a package without dependencies
NoDirectDependencies == << <<"no direct dependencies">> >>

\* lines 82-85
DirectDependencies(info) ==
    IF info = <<>> THEN NoDirectDependencies
    ELSE [i \in DOMAIN info |-> PackageKey(info[i][1], info[i][2])]

\* extract_dependencies with the registry asked in test mode too
extract_dependencies_from_registry ==
    /\ pc = "start"
    /\ \E response \in FetchResponses(config.package_name, config.package_version) :
          LET result == get_npm_package_info(response, config.package_version)
          IN  /\ FetchReads(config.package_name, config.package_version, response)
              /\ extract_calls' = Append(extract_calls,
                                         <<config.package_name, config.package_version>>)
              /\ IF result.raised = "none"
                 THEN /\ self_dependencies' = DirectDependencies(result.info)
                      /\ pc' = "extracted"
                      /\ UNCHANGED exit_status
                 ELSE /\ MainFails
                      /\ UNCHANGED self_dependencies
    /\ UNCHANGED <<files, analysis_cycles, exported, dependency_graph, stack, visited, locals,
                   info_calls, resolve_calls, own_calls, reverse_deps>>

\* lines 73-85, called by run_analysis (line 356): in test mode a
\* placeholder; otherwise the manifest of the configured package and
\* version is fetched, outside any handler but the one of main
extract_dependencies ==
    /\ pc = "start"
    /\ IF config.test_repo_mode
       THEN /\ self_dependencies' = FromTestFile
            /\ pc' = "extracted"
            /\ UNCHANGED <<extract_calls, exit_status, registry>>
       ELSE \E response \in FetchResponses(config.package_name, config.package_version) :
               LET result == get_npm_package_info(response, config.package_version)
               IN  /\ FetchReads(config.package_name, config.package_version, response)
                   /\ extract_calls' = Append(extract_calls,
                                              <<config.package_name, config.package_version>>)
                   /\ IF result.raised = "none"
                      THEN /\ self_dependencies' = DirectDependencies(result.info)
                           /\ pc' = "extracted"
                           /\ UNCHANGED exit_status
                      ELSE /\ MainFails
                           /\ UNCHANGED self_dependencies
    /\ UNCHANGED <<files, analysis_cycles, exported, dependency_graph, stack, visited, locals,
                   info_calls, resolve_calls, own_calls, reverse_deps>>

(***************************************************************************)
(* _build_graph_from_npm (lines 137-171), called by build_dependency_graph *)
(* (lines 95-100) in a run of run_analysis (line 358).                     *)
(***************************************************************************)
\* lines 138-142
build_graph_from_npm ==
    /\ pc = "extracted"
    /\ ~config.test_repo_mode
    /\ stack' = << <<config.package_name, config.package_version>> >>
    /\ dependency_graph' = <<>>
    /\ visited' = {}
    /\ pc' = "while"
    /\ UNCHANGED <<files, run, locals, registry, info_calls, resolve_calls, own_calls,
                   reverse_deps>>

\* PopKey without the test of lines 151-152
PopKeyAlwaysFetches(name, ver) ==
    /\ package' = name
    /\ version' = ver
    /\ package_key' = PackageKey(name, ver)
    /\ pc' = "fetch"
    /\ visited' = visited \cup {PackageKey(name, ver)}

\* lines 150-153: the key of the popped entry, and the visited test
PopKey(name, ver) ==
    /\ package' = name
    /\ version' = ver
    /\ package_key' = PackageKey(name, ver)
    /\ IF PackageKey(name, ver) \in visited
       THEN pc' = "while" /\ UNCHANGED visited
       ELSE pc' = "fetch" /\ visited' = visited \cup {PackageKey(name, ver)}

\* lines 143-153, the popped version being concrete
build_pop_concrete ==
    /\ pc = "while"
    /\ stack # <<>>
    /\ ~IsRange(stack[Len(stack)][2])
    /\ stack' = SubSeq(stack, 1, Len(stack) - 1)
    /\ PopKey(stack[Len(stack)][1], stack[Len(stack)][2])
    /\ UNCHANGED <<files, run, dependency_graph, dependencies, dep_i, resolved_dependencies,
                   resolved_dep_version, registry, info_calls, resolve_calls,
                   own_calls, reverse_deps>>

\* lines 143-153, the popped version being a range
build_pop_range ==
    /\ pc = "while"
    /\ stack # <<>>
    /\ IsRange(stack[Len(stack)][2])
    /\ stack' = SubSeq(stack, 1, Len(stack) - 1)
    /\ \E response \in ResolveResponses(stack[Len(stack)][1]) :
          LET name     == stack[Len(stack)][1]
              spec     == stack[Len(stack)][2]
              resolved == resolve_version_range(response, spec)
          IN  /\ ResolveReads(name, response)
              /\ resolve_calls' = Append(resolve_calls, <<name, spec>>)
              /\ IF resolved.raised
                 THEN pc' = "raised" /\ UNCHANGED <<visited, package, version, package_key>>
                 ELSE PopKey(name, resolved.value)
    /\ UNCHANGED <<files, run, dependency_graph, dependencies, dep_i, resolved_dependencies,
                   resolved_dep_version, info_calls, own_calls, reverse_deps>>

\* FetchReturned with the list of line 157 created once, before the loop
FetchReturnedKeepsList(info) ==
    /\ dependencies' = info
    /\ dep_i' = 1
    /\ pc' = "for"
    /\ UNCHANGED <<dependency_graph, resolved_dependencies>>

\* lines 156-157: the loop over the declared dependencies starts
FetchReturned(info) ==
    /\ dependencies' = info
    /\ resolved_dependencies' = <<>>
    /\ dep_i' = 1
    /\ pc' = "for"
    /\ UNCHANGED dependency_graph

\* lines 169-171: except DependencyError
FetchFailed ==
    /\ dependency_graph' = DictSet(dependency_graph, package_key, <<>>)
    /\ pc' = "while"
    /\ UNCHANGED <<dependencies, dep_i, resolved_dependencies>>

\* lines 154-157 and 169-171: the fetch; an exception that is no
\* DependencyError leaves the build
build_fetch ==
    /\ pc = "fetch"
    /\ \E response \in FetchResponses(package, version) :
          LET result == get_npm_package_info(response, version)
          IN  /\ FetchReads(package, version, response)
              /\ info_calls' = Append(info_calls, <<package, version>>)
              /\ CASE result.raised = "none" -> FetchReturned(result.info)
                   [] result.raised = "DependencyError" -> FetchFailed
                   [] OTHER -> /\ pc' = "raised"
                               /\ UNCHANGED <<dependency_graph, dependencies, dep_i,
                                              resolved_dependencies>>
    /\ UNCHANGED <<files, run, stack, visited, package, version, package_key,
                   resolved_dep_version, resolve_calls, own_calls, reverse_deps>>

\* line 167: resolved_dep_version if 'resolved_dep_version' in locals()
\* else dep_version
PushedVersion(local, dep_version) ==
    IF local # <<>> THEN local[1] ELSE dep_version

\* lines 164-167: append the key, push the dependency unless visited
ForAppend(dep_name, dep_version, dep_key, local) ==
    /\ resolved_dependencies' = Append(resolved_dependencies, dep_key)
    /\ resolved_dep_version' = local
    /\ stack' = IF dep_key \notin visited
                THEN Append(stack, <<dep_name, PushedVersion(local, dep_version)>>)
                ELSE stack
    /\ dep_i' = dep_i + 1
    /\ pc' = "for"

\* lines 158-167, the declared specifier being concrete
build_for_concrete ==
    /\ pc = "for"
    /\ dep_i <= Len(dependencies)
    /\ ~IsRange(dependencies[dep_i][2])
    /\ ForAppend(dependencies[dep_i][1], dependencies[dep_i][2],
                 PackageKey(dependencies[dep_i][1], dependencies[dep_i][2]),
                 resolved_dep_version)
    /\ UNCHANGED <<files, run, dependency_graph, visited, package, version, package_key,
                   dependencies, registry, info_calls, resolve_calls, own_calls, reverse_deps>>

\* lines 158-167, the declared specifier being a range
build_for_range ==
    /\ pc = "for"
    /\ dep_i <= Len(dependencies)
    /\ IsRange(dependencies[dep_i][2])
    /\ \E response \in ResolveResponses(dependencies[dep_i][1]) :
          LET dep_name    == dependencies[dep_i][1]
              dep_version == dependencies[dep_i][2]
              resolved    == resolve_version_range(response, dep_version)
          IN  /\ ResolveReads(dep_name, response)
              /\ resolve_calls' = Append(resolve_calls, <<dep_name, dep_version>>)
              /\ IF resolved.raised
                 THEN pc' = "raised" /\ UNCHANGED <<stack, dep_i, resolved_dependencies,
                                                    resolved_dep_version>>
                 ELSE ForAppend(dep_name, dep_version,
                                PackageKey(dep_name, resolved.value), <<resolved.value>>)
    /\ UNCHANGED <<files, run, dependency_graph, visited, package, version, package_key,
                   dependencies, info_calls, own_calls, reverse_deps>>

\* line 168
build_store ==
    /\ pc = "for"
    /\ dep_i > Len(dependencies)
    /\ dependency_graph' = DictSet(dependency_graph, package_key, resolved_dependencies)
    /\ pc' = "while"
    /\ UNCHANGED <<files, run, stack, visited, locals, registry, info_calls, resolve_calls,
                   own_calls, reverse_deps>>

\* line 143, the stack being empty: the build returns
build_return ==
    /\ pc = "while"
    /\ stack = <<>>
    /\ pc' = "done"
    /\ UNCHANGED <<files, run, build, own_calls, reverse_deps>>

(***************************************************************************)
(* resolve_version_range called on its own (lines 115-134), with any       *)
(* specifier and any response of the registry.                             *)
(***************************************************************************)
DirectResponses ==
    { [status |-> s, latest |-> NoTag, versions |-> {}] : s \in ResolveStatuses \ {"ok"} }
    \cup
    { [status |-> "ok", latest |-> l, versions |-> vs] :
        l \in {NoTag} \cup Versions, vs \in SUBSET DirectVersions }

call_resolve_version_range ==
    /\ pc = "start"
    /\ ~config.test_repo_mode
    /\ \E name \in Names, version_range \in DirectSpecs, response \in DirectResponses :
          /\ direct' = << [package_name  |-> name,
                           version_range |-> version_range,
                           response      |-> response,
                           result        |-> resolve_version_range(response, version_range)] >>
          \* line 117: the call requests the registry
          /\ resolve_calls' = Append(resolve_calls, <<name, version_range>>)
    /\ pc' = "resolved"
    /\ UNCHANGED <<files, run, dependency_graph, stack, visited, locals, registry,
                   info_calls, fetched, reverse_deps>>

(***************************************************************************)
(* get_npm_package_info called on its own (lines 57-70), with any version  *)
(* and any response of the registry.                                       *)
(***************************************************************************)
\* the responses to the request: a failure, or the published versions and
\* the manifest of the requested version
DirectFetchResponses ==
    { [status |-> s, versions |-> {}, manifest |-> <<>>] : s \in FetchStatuses \ {"ok"} }
    \cup
    { [status |-> "ok", versions |-> vs, manifest |-> m] :
        vs \in SUBSET Versions, m \in { d \in DepLists : Len(d) <= 1 } }

call_get_npm_package_info ==
    /\ pc = "start"
    /\ ~config.test_repo_mode
    /\ \E name \in Names, ver \in Versions, response \in DirectFetchResponses :
          fetched' = << [package_name |-> name,
                         version      |-> ver,
                         response     |-> response,
                         result       |-> get_npm_package_info(response, ver)] >>
    /\ pc' = "fetched"
    /\ UNCHANGED <<files, run, build, direct, reverse_deps>>

(***************************************************************************)
(* _build_graph_from_file (lines 103-112): the graph is what the test      *)
(* file holds, any dict from names to lists of names.                      *)
(***************************************************************************)
\* build_graph_from_file with a file that cannot be read taken for the
\* empty dict
build_graph_from_file_lenient ==
    /\ pc = "extracted"
    /\ config.test_repo_mode
    /\ dependency_graph' = repository.graph
    /\ pc' = "done"
    /\ UNCHANGED <<files, run, stack, visited, locals, registry, info_calls, resolve_calls,
                   own_calls, reverse_deps>>

\* lines 103-112, called by build_dependency_graph (line 98) in a run of
\* run_analysis: a DependencyError when the file does not exist or cannot
\* be read and parsed, which main reports
build_graph_from_file ==
    /\ pc = "extracted"
    /\ config.test_repo_mode
    /\ IF repository.status = "ok"
       THEN /\ dependency_graph' = repository.graph
            /\ pc' = "done"
            /\ UNCHANGED exit_status
       ELSE /\ MainFails
            /\ UNCHANGED dependency_graph
    /\ UNCHANGED <<files, self_dependencies, extract_calls, analysis_cycles, exported, stack,
                   visited, locals, registry, info_calls, resolve_calls, own_calls,
                   reverse_deps>>

(***************************************************************************)
(* detect_cycles (lines 174-192).                                          *)
(***************************************************************************)
\* path.index(neighbor): the first position of neighbor in path
Index(path, neighbor) ==
    CHOOSE i \in DOMAIN path :
        path[i] = neighbor /\ \A j \in 1..(i - 1) : path[j] # neighbor

\* CycleOf with the whole path taken, from the start node on
CycleOfWholePath(path, neighbor) == Append(path, neighbor)

\* lines 186-187: path[cycle_start:] + [neighbor]
CycleOf(path, neighbor) ==
    SubSeq(path, Index(path, neighbor), Len(path)) \o <<neighbor>>

\* the sequences that start a turn later on the same closed walk
Rotations(cycle) ==
    LET open == SubSeq(cycle, 1, Len(cycle) - 1)
    IN  { SubSeq(open, i, Len(open)) \o SubSeq(open, 1, i) : i \in DOMAIN open }

\* NewCycle with the cycles compared up to rotation
NewCycleUpToRotation(cycle, cycles) ==
    \A r \in Rotations(cycle) : r \notin Elements(cycles)

\* line 188: cycle not in cycles, the lists compared element by element
NewCycle(cycle, cycles) == cycle \notin Elements(cycles)

\* CyclesFor with a neighbor taken to close a cycle when the traversal has
\* visited it, on the path or not
RECURSIVE CyclesForVisited(_, _, _, _, _)
CyclesForVisited(neighbors, i, path, visited_in_dfs, acc) ==
    IF i > Len(neighbors) THEN acc
    ELSE LET neighbor == neighbors[i]
             cycle == IF neighbor \in Elements(path)
                      THEN CycleOf(path, neighbor)
                      ELSE Append(path, neighbor)
         IN  IF neighbor \in Elements(path) \cup visited_in_dfs
             THEN CyclesForVisited(neighbors, i + 1, path, visited_in_dfs,
                     [cycles |-> IF NewCycle(cycle, acc.cycles)
                                 THEN Append(acc.cycles, cycle) ELSE acc.cycles,
                      stack  |-> acc.stack])
             ELSE CyclesForVisited(neighbors, i + 1, path, visited_in_dfs,
                     [cycles |-> acc.cycles,
                      stack  |-> Append(acc.stack, <<neighbor, Append(path, neighbor)>>)])

\* lines 184-191: the loop over the neighbors of current_node; acc is
\* [cycles, stack]
RECURSIVE CyclesFor(_, _, _, _, _)
CyclesFor(neighbors, i, path, visited_in_dfs, acc) ==
    IF i > Len(neighbors) THEN acc
    ELSE LET neighbor == neighbors[i]
         IN  IF neighbor \in Elements(path)
             THEN CyclesFor(neighbors, i + 1, path, visited_in_dfs,
                     [cycles |-> IF NewCycle(CycleOf(path, neighbor), acc.cycles)
                                 THEN Append(acc.cycles, CycleOf(path, neighbor))
                                 ELSE acc.cycles,
                      stack  |-> acc.stack])
             ELSE IF neighbor \notin visited_in_dfs
             THEN CyclesFor(neighbors, i + 1, path, visited_in_dfs,
                     [cycles |-> acc.cycles,
                      stack  |-> Append(acc.stack, <<neighbor, Append(path, neighbor)>>)])
             ELSE CyclesFor(neighbors, i + 1, path, visited_in_dfs, acc)

\* lines 179-191: the traversal from one start node; an entry of the stack
\* is <<node, path>>
RECURSIVE CyclesWhile(_, _, _, _)
CyclesWhile(graph, work, visited_in_dfs, cycles) ==
    IF work = <<>> THEN cycles
    ELSE LET current_node == work[Len(work)][1]
             path == work[Len(work)][2]
             rest == SubSeq(work, 1, Len(work) - 1)
         IN  IF current_node \in visited_in_dfs
             THEN CyclesWhile(graph, rest, visited_in_dfs, cycles)
             ELSE LET acc == CyclesFor(DictGet(graph, current_node, <<>>), 1, path,
                                       visited_in_dfs \cup {current_node},
                                       [cycles |-> cycles, stack |-> rest])
                  IN  CyclesWhile(graph, acc.stack,
                                  visited_in_dfs \cup {current_node}, acc.cycles)

\* CyclesWhile without the test of lines 181-182, as the list of the nodes
\* it expands
RECURSIVE CyclesExpandedUnchecked(_, _, _, _)
CyclesExpandedUnchecked(graph, work, visited_in_dfs, expanded) ==
    IF work = <<>> THEN expanded
    ELSE LET current_node == work[Len(work)][1]
             path == work[Len(work)][2]
             rest == SubSeq(work, 1, Len(work) - 1)
             acc == CyclesFor(DictGet(graph, current_node, <<>>), 1, path,
                              visited_in_dfs \cup {current_node},
                              [cycles |-> <<>>, stack |-> rest])
         IN  CyclesExpandedUnchecked(graph, acc.stack, visited_in_dfs \cup {current_node},
                                     Append(expanded, current_node))

\* lines 179-191 again, as the list of the nodes the traversal expands: the
\* nodes it pops and does not skip (lines 180-183), in that order
RECURSIVE CyclesExpanded(_, _, _, _)
CyclesExpanded(graph, work, visited_in_dfs, expanded) ==
    IF work = <<>> THEN expanded
    ELSE LET current_node == work[Len(work)][1]
             path == work[Len(work)][2]
             rest == SubSeq(work, 1, Len(work) - 1)
         IN  IF current_node \in visited_in_dfs
             THEN CyclesExpanded(graph, rest, visited_in_dfs, expanded)
             ELSE LET acc == CyclesFor(DictGet(graph, current_node, <<>>), 1, path,
                                       visited_in_dfs \cup {current_node},
                                       [cycles |-> <<>>, stack |-> rest])
                  IN  CyclesExpanded(graph, acc.stack, visited_in_dfs \cup {current_node},
                                     Append(expanded, current_node))

\* CyclesStarts with the one traversal from the first key
CyclesStartsOnce(graph, k, cycles) ==
    IF k > Len(graph) THEN cycles
    ELSE CyclesWhile(graph, << <<graph[k][1], <<graph[k][1]>> >> >>, {}, cycles)

\* lines 176-178: one traversal from each key of the graph, in key order
RECURSIVE CyclesStarts(_, _, _)
CyclesStarts(graph, k, cycles) ==
    IF k > Len(graph) THEN cycles
    ELSE CyclesStarts(graph, k + 1,
                      CyclesWhile(graph, << <<graph[k][1], <<graph[k][1]>> >> >>, {}, cycles))

detect_cycles(graph) == CyclesStarts(graph, 1, <<>>)

(***************************************************************************)
(* find_reverse_dependencies (lines 201-217).                              *)
(***************************************************************************)

\* ReverseFor without the test of line 213
RECURSIVE ReverseForRepeats(_, _, _, _, _, _)
ReverseForRepeats(deps, i, current_package, target_package, seen, acc) ==
    IF i > Len(deps) THEN acc
    ELSE LET dependency == deps[i]
             found == IF dependency = target_package
                      THEN Append(acc.reverse_deps, current_package)
                      ELSE acc.reverse_deps
             pushed == IF dependency \notin seen
                       THEN Append(acc.stack, dependency)
                       ELSE acc.stack
         IN  ReverseForRepeats(deps, i + 1, current_package, target_package, seen,
                               [reverse_deps |-> found, stack |-> pushed])

\* ReverseFor with a package found entered at the front of the result
RECURSIVE ReverseForPrepends(_, _, _, _, _, _)
ReverseForPrepends(deps, i, current_package, target_package, seen, acc) ==
    IF i > Len(deps) THEN acc
    ELSE LET dependency == deps[i]
             found == IF dependency = target_package
                         /\ current_package \notin Elements(acc.reverse_deps)
                      THEN <<current_package>> \o acc.reverse_deps
                      ELSE acc.reverse_deps
             pushed == IF dependency \notin seen
                       THEN Append(acc.stack, dependency)
                       ELSE acc.stack
         IN  ReverseForPrepends(deps, i + 1, current_package, target_package, seen,
                                [reverse_deps |-> found, stack |-> pushed])

\* lines 211-216: the loop over the dependencies of current_package;
\* acc is [reverse_deps, stack]
RECURSIVE ReverseFor(_, _, _, _, _, _)
ReverseFor(deps, i, current_package, target_package, seen, acc) ==
    IF i > Len(deps) THEN acc
    ELSE LET dependency == deps[i]
             found == IF dependency = target_package
                         /\ current_package \notin Elements(acc.reverse_deps)
                      THEN Append(acc.reverse_deps, current_package)
                      ELSE acc.reverse_deps
             pushed == IF dependency \notin seen
                       THEN Append(acc.stack, dependency)
                       ELSE acc.stack
         IN  ReverseFor(deps, i + 1, current_package, target_package, seen,
                        [reverse_deps |-> found, stack |-> pushed])

\* lines 206-216: the traversal from one package
RECURSIVE ReverseWhile(_, _, _, _, _)
ReverseWhile(graph, target_package, work, seen, found) ==
    IF work = <<>> THEN found
    ELSE LET current_package == work[Len(work)]
             rest == SubSeq(work, 1, Len(work) - 1)
         IN  IF current_package \in seen
             THEN ReverseWhile(graph, target_package, rest, seen, found)
             ELSE LET acc == ReverseFor(DictGet(graph, current_package, <<>>), 1,
                                        current_package, target_package,
                                        seen \cup {current_package},
                                        [reverse_deps |-> found, stack |-> rest])
                  IN  ReverseWhile(graph, target_package, acc.stack,
                                   seen \cup {current_package}, acc.reverse_deps)

\* lines 206-216 again, as the list of the packages the traversal expands:
\* the packages it pops and does not skip (lines 207-210), in that order
RECURSIVE ReverseExpanded(_, _, _, _, _)
ReverseExpanded(graph, target_package, work, seen, expanded) ==
    IF work = <<>> THEN expanded
    ELSE LET current_package == work[Len(work)]
             rest == SubSeq(work, 1, Len(work) - 1)
         IN  IF current_package \in seen
             THEN ReverseExpanded(graph, target_package, rest, seen, expanded)
             ELSE LET acc == ReverseFor(DictGet(graph, current_package, <<>>), 1,
                                        current_package, target_package,
                                        seen \cup {current_package},
                                        [reverse_deps |-> <<>>, stack |-> rest])
                  IN  ReverseExpanded(graph, target_package, acc.stack,
                                      seen \cup {current_package},
                                      Append(expanded, current_package))

\* lines 203-205: one traversal from each key of the graph, in key order
RECURSIVE ReversePackages(_, _, _, _)
ReversePackages(graph, target_package, k, found) ==
    IF k > Len(graph) THEN found
    ELSE ReversePackages(graph, target_package, k + 1,
                         ReverseWhile(graph, target_package, <<graph[k][1]>>, {}, found))

find_reverse_dependencies(graph, target_package) ==
    ReversePackages(graph, target_package, 1, <<>>)

\* lines 221-225 of display_reverse_dependencies
TargetKey ==
    IF config.test_repo_mode
    THEN config.package_name
    ELSE PackageKey(config.package_name, config.package_version)

\* lines 220-228, called any number of times on a graph loaded from a test
\* file (run_analysis does not call it, line 367)
display_reverse_dependencies ==
    /\ pc \in {"done", "reported"}
    /\ config.test_repo_mode
    /\ reverse_deps' = find_reverse_dependencies(dependency_graph, TargetKey)
    /\ pc' = "reported"
    /\ UNCHANGED <<files, run, build, own_calls>>

(***************************************************************************)
(* run_analysis after the build (lines 360-372) and the return of main.    *)
(***************************************************************************)
\* the dependencies of the graph that are no key of it
Unexpanded(graph) ==
    UNION { Elements(graph[i][2]) : i \in DOMAIN graph } \ DictKeys(graph)

\* call_detect_cycles with a dependency that is no key of the graph entered
\* as a key without dependencies when it is looked up
call_detect_cycles_inserting ==
    /\ pc \in {"done", "analysed"}
    /\ analysis_cycles' = << detect_cycles(dependency_graph) >>
    /\ dependency_graph' =
          IF Unexpanded(dependency_graph) = {} THEN dependency_graph
          ELSE Append(dependency_graph,
                      << CHOOSE t \in Unexpanded(dependency_graph) : TRUE, <<>> >>)
    /\ pc' = "analysed"
    /\ UNCHANGED <<files, self_dependencies, extract_calls, exported, exit_status, stack,
                   visited, locals, registry, info_calls, resolve_calls, own_calls,
                   reverse_deps>>

\* line 360: cycles = self.detect_cycles(), called any number of times on
\* the graph that was built
call_detect_cycles ==
    /\ pc \in {"done", "analysed"}
    /\ analysis_cycles' = << detect_cycles(dependency_graph) >>
    /\ pc' = "analysed"
    /\ UNCHANGED <<files, self_dependencies, extract_calls, exported, exit_status, build,
                   own_calls, reverse_deps>>

\* lines 361-372 and the return of main, after the cycles are reported:
\* save_d2_diagram (lines 250-273) writes the diagram file, or prints the
\* failure to write it (lines 268-273) and raises nothing; the process ends
\* with status 0
run_analysis_returns ==
    /\ pc = "analysed"
    /\ exported' \in BOOLEAN
    /\ pc' = "exit"
    /\ exit_status' = <<0>>
    /\ UNCHANGED <<files, self_dependencies, extract_calls, analysis_cycles, build,
                   own_calls, reverse_deps>>

Next ==
    \/ load_config
    \/ extract_dependencies
    \/ build_graph_from_npm
    \/ build_pop_concrete
    \/ build_pop_range
    \/ build_fetch
    \/ build_for_concrete
    \/ build_for_range
    \/ build_store
    \/ build_return
    \/ call_resolve_version_range
    \/ call_get_npm_package_info
    \/ build_graph_from_file
    \/ display_reverse_dependencies
    \/ call_detect_cycles
    \/ run_analysis_returns

Spec == Init /\ [][Next]_vars

\* the build under the scheduling of a sequential program: it takes its
\* next step as long as it has one
FairSpec == Spec /\ WF_vars(Next)

(***************************************************************************)
(* Properties of the graph build.                                          *)
(***************************************************************************)
\* the keys of the calls of get_npm_package_info
FetchedKey(i) == PackageKey(info_calls[i][1], info_calls[i][2])

\* the key of the root package, as the build has fetched it
RootKey == FetchedKey(1)

\* the keys reachable from the keys in frontier along the edges of graph
RECURSIVE Reach(_, _, _)
Reach(graph, frontier, seen) ==
    IF frontier = {} THEN seen
    ELSE LET k    == CHOOSE x \in frontier : TRUE
             succ == { DictGet(graph, k, <<>>)[i] : i \in DOMAIN DictGet(graph, k, <<>>) }
         IN  Reach(graph, (frontier \cup succ) \ (seen \cup {k}), seen \cup {k})

\* the targets of the edges of graph
EdgeTargets(graph) ==
    UNION { { graph[i][2][j] : j \in DOMAIN graph[i][2] } : i \in DOMAIN graph }

\* the number of edges of graph
RECURSIVE TotalEdges(_)
TotalEdges(graph) ==
    IF graph = <<>> THEN 0 ELSE Len(graph[1][2]) + TotalEdges(Tail(graph))

\* the build has returned, and no request of the run has failed in transport
DoneWithoutFailure == pc = "done" /\ failures = 0 /\ ~config.test_repo_mode

\* the step pops an entry whose key is in the visited set
PopsVisited == pc = "while" /\ stack # <<>> /\ package_key' \in visited

\* C1: during one build, get_npm_package_info is called at most once for a
\* (name, version) pair, and popping a key that is in the visited set
\* fetches nothing and pushes nothing.
C1_FetchedAtMostOnce ==
    /\ [](\A i, j \in DOMAIN info_calls : i # j => info_calls[i] # info_calls[j])
    /\ [][PopsVisited => /\ info_calls' = info_calls
                         /\ stack' = SubSeq(stack, 1, Len(stack) - 1)
                         /\ pc' = "while"]_vars

\* a visited key has been popped and skipped: the loop is at its head with
\* a key that is not the one stored last
C1_Witness ==
    /\ pc = "while"
    /\ Len(info_calls) >= 2
    /\ package_key \in visited
    /\ dependency_graph[Len(dependency_graph)][1] # package_key

\* C2: when the build has returned, the number of calls of
\* get_npm_package_info equals the number of keys reachable from the root
\* key along the edges of the graph, and every fetched key is the root or
\* the target of an edge (stated for the runs without a transport failure).
C2_FetchesEqualReachable ==
    DoneWithoutFailure =>
        /\ Len(info_calls) = Cardinality(Reach(dependency_graph, {RootKey}, {}))
        /\ \A i \in DOMAIN info_calls :
              FetchedKey(i) = RootKey \/ FetchedKey(i) \in EdgeTargets(dependency_graph)

\* C3: when the build has returned, every key of a dependency list is a
\* key of the graph (stated for the runs without a transport failure).
C3_GraphClosed ==
    DoneWithoutFailure => EdgeTargets(dependency_graph) \subseteq DictKeys(dependency_graph)

\* the step is a call of get_npm_package_info that returns no manifest
FetchFails == pc = "fetch" /\ pc' # "for"

\* C4: a fetch that fails leaves the empty list for its key, the build goes
\* on with the stack as it is, and no exception ever leaves the build.
C4_FetchFailureAbsorbed ==
    /\ [](pc # "raised")
    /\ [](\A i \in DOMAIN info_calls :
             FetchedKey(i) \notin DOMAIN manifests =>
                 /\ FetchedKey(i) \in DictKeys(dependency_graph)
                 /\ DictGet(dependency_graph, FetchedKey(i), <<"none">>) = <<>>)
    /\ [][FetchFails => /\ pc' = "while"
                        /\ stack' = stack
                        /\ DictGet(dependency_graph', package_key, <<"none">>) = <<>>]_vars

\* the build has returned after a fetch that failed and a later fetch that
\* returned a manifest
C4_Witness ==
    /\ pc = "done"
    /\ \E i, j \in DOMAIN info_calls :
          /\ i < j
          /\ FetchedKey(i) \notin DOMAIN manifests
          /\ DictGet(dependency_graph, FetchedKey(i), <<"none">>) = <<>>
          /\ FetchedKey(j) \in DOMAIN manifests
          /\ DictGet(dependency_graph, FetchedKey(j), <<>>) # <<>>

\* a build that has started returns
Terminates == (pc = "while") ~> (pc = "done")

\* C5: the build terminates after a number of fetches that is at most the
\* number of keys reachable from the root key (the bound, stated for the
\* runs without a transport failure).
C5_FetchesBounded ==
    DoneWithoutFailure =>
        Len(info_calls) <= Cardinality(Reach(dependency_graph, {RootKey}, {}))

\* C6: at every step of the build from the registry, and in the graph it
\* returns, the number of edges of the graph is at most the number of
\* dependencies the manifests of the registry declare.
C6_EdgesBounded ==
    ~config.test_repo_mode =>
        TotalEdges(dependency_graph) <= Declared(manifests)

\* the build has returned a graph with a cycle and at least three edges
C6_Witness ==
    /\ pc = "done"
    /\ ~config.test_repo_mode
    /\ TotalEdges(dependency_graph) >= 3
    /\ \E k \in DictKeys(dependency_graph) :
          \E i \in DOMAIN DictGet(dependency_graph, k, <<>>) :
             k \in Reach(dependency_graph, {DictGet(dependency_graph, k, <<>>)[i]}, {})

(***************************************************************************)
(* Properties of the version resolver.                                     *)
(***************************************************************************)
\* the specifier contains one of the range characters ^ ~ > < |
HasRangeChar(specifier) ==
    \E i \in DOMAIN specifier : specifier[i] \in { "^", "~", ">", "<", "|" }

\* the entry on top of the work stack
Top == stack[Len(stack)]

\* the step pops an entry whose specifier has no range character
PopsConcrete == pc = "while" /\ stack # <<>> /\ ~HasRangeChar(Top[2])

\* the step takes a declared dependency whose specifier has no range character
TakesConcrete ==
    pc = "for" /\ dep_i <= Len(dependencies) /\ ~HasRangeChar(dependencies[dep_i][2])

\* C7, as claimed: called with a specifier without range character,
\* resolve_version_range returns the specifier and requests nothing.
C7_ResolverKeepsConcrete ==
    \A i \in DOMAIN direct :
        ~HasRangeChar(direct[i].version_range) =>
            /\ direct[i].result = Returns(direct[i].version_range)
            /\ resolve_calls = <<>>

\* C7, amended: the graph build never calls resolve_version_range for a
\* specifier without range character and uses such a specifier unchanged,
\* as popped and as declared; resolve_version_range itself requests the
\* registry whatever the specifier.
C7_BuildKeepsConcrete ==
    /\ [](direct = <<>> =>
             \A i \in DOMAIN resolve_calls : HasRangeChar(resolve_calls[i][2]))
    /\ [](direct # <<>> => Len(resolve_calls) = 1)
    /\ [][PopsConcrete => /\ package_key' = PackageKey(Top[1], Top[2])
                          /\ version' = Top[2]
                          /\ UNCHANGED <<resolve_calls, registry>>]_vars
    /\ [][TakesConcrete =>
             /\ resolved_dependencies' =
                   Append(resolved_dependencies,
                          PackageKey(dependencies[dep_i][1], dependencies[dep_i][2]))
             /\ UNCHANGED <<resolve_calls, registry>>]_vars

\* the build has returned a graph with an edge to version 1 of a package
\* whose latest tag is 2, in a run where every request was answered
C7_Witness ==
    /\ pc = "done"
    /\ ~config.test_repo_mode
    /\ failures = 0
    /\ \E n \in DOMAIN dist_tags :
          /\ dist_tags[n] = <<"2">>
          /\ PackageKey(n, <<"1">>) \in EdgeTargets(dependency_graph)

\* the step pops a range whose package the registry answers with a tag
PopsRangeTagged ==
    /\ pc = "while"
    /\ stack # <<>>
    /\ HasRangeChar(Top[2])
    /\ failures' = failures
    /\ Top[1] \in DOMAIN dist_tags'
    /\ dist_tags'[Top[1]] # NoTag

\* C8: for a range specifier and a response that carries a latest tag,
\* resolve_version_range returns the tag, whatever the range and the
\* published versions; so does the build when it pops a range.
C8_LatestTagWins ==
    /\ [](\A i \in DOMAIN direct :
             (/\ HasRangeChar(direct[i].version_range)
              /\ direct[i].response.status = "ok"
              /\ direct[i].response.latest # NoTag)
             => direct[i].result = Returns(direct[i].response.latest))
    /\ [][PopsRangeTagged => version' = dist_tags'[Top[1]]]_vars

\* resolve_version_range has returned the tag 1 for the range >1 although
\* version 2 is published
C8_Witness ==
    \E i \in DOMAIN direct :
        /\ direct[i].version_range = <<">", "1">>
        /\ direct[i].response.status = "ok"
        /\ direct[i].response.latest = <<"1">>
        /\ <<"2">> \in direct[i].response.versions
        /\ direct[i].result = Returns(<<"1">>)

\* the version list of the response is consulted
Listed(d) == d.response.status = "ok" /\ d.response.latest = NoTag

\* a published version key is no semantic version: the sort raises
ParseError(d) == Listed(d) /\ \E v \in d.response.versions : ~SemverValid(v)

\* matching a published version against the range raises
MatchError(d) ==
    /\ Listed(d)
    /\ ~ParseError(d)
    /\ \E v \in d.response.versions : SemverMatch(v, d.version_range) = "raise"

\* no published version satisfies the range
NoneSatisfies(d) ==
    /\ Listed(d)
    /\ ~ParseError(d)
    /\ d.response.versions # {}
    /\ \A v \in d.response.versions : SemverMatch(v, d.version_range) # "yes"

\* the newest published version
Newest(d) ==
    CHOOSE v \in d.response.versions :
        \A w \in d.response.versions : SemverValue(w) <= SemverValue(v)

\* C9, as claimed: resolve_version_range never raises; on a network, status,
\* parse or range-matching error and without any published version it
\* returns the specifier; when versions exist and none satisfies the range
\* it returns the newest version.
C9_ResolverFallsBack ==
    \A i \in DOMAIN direct :
        LET d == direct[i]
        IN  /\ ~d.result.raised
            /\ d.response.status # "ok" => d.result.value = d.version_range
            /\ ParseError(d) => d.result.value = d.version_range
            /\ MatchError(d) => d.result.value = d.version_range
            /\ (Listed(d) /\ d.response.versions = {}) => d.result.value = d.version_range
            /\ (NoneSatisfies(d) /\ ~MatchError(d)) => d.result.value = Newest(d)

\* C9, amended: resolve_version_range never raises; on a network, status or
\* parse error, and without a latest tag and any published version, it
\* returns the specifier; without a latest tag, when versions exist and none
\* satisfies the range, a version whose matching raises counting as not
\* satisfying it, it returns the newest version.
C9_ResolverFallsBackAmended ==
    \A i \in DOMAIN direct :
        LET d == direct[i]
        IN  /\ ~d.result.raised
            /\ d.response.status # "ok" => d.result.value = d.version_range
            /\ ParseError(d) => d.result.value = d.version_range
            /\ (Listed(d) /\ d.response.versions = {}) => d.result.value = d.version_range
            /\ NoneSatisfies(d) => d.result.value = Newest(d)

\* resolve_version_range has returned the newest version 2 for the range
\* ^1, which the matching rejects with an exception for every version
C9_Witness ==
    \E i \in DOMAIN direct :
        /\ direct[i].version_range = <<"^", "1">>
        /\ direct[i].response.status = "ok"
        /\ direct[i].response.latest = NoTag
        /\ direct[i].response.versions = { <<"1">>, <<"2">> }
        /\ MatchError(direct[i])
        /\ direct[i].result = Returns(<<"2">>)

(***************************************************************************)
(* Properties of the graph queries.                                        *)
(***************************************************************************)
\* the keys from which target is reached along one or more edges of graph
Dependents(graph, target) ==
    { p \in DictKeys(graph) :
        target \in Reach(graph, Elements(DictGet(graph, p, <<>>)), {}) }

\* C10: find_reverse_dependencies returns every key of the graph from which
\* the target is reached along one or more edges, the immediate parents and
\* the others.
C10_AllDependentsReturned ==
    (pc = "reported" /\ config.test_repo_mode) =>
        Dependents(dependency_graph, TargetKey) \subseteq Elements(reverse_deps)

(***************************************************************************)
(* Properties of detect_cycles.                                            *)
(***************************************************************************)
\* the nodes of graph: its keys and the targets of its edges
NodesOf(graph) == DictKeys(graph) \cup EdgeTargets(graph)

\* there is an edge from x to y
Edge(graph, x, y) == y \in Elements(DictGet(graph, x, <<>>))

\* the simple directed cycles of graph, each as the sequence that starts and
\* ends at one of its nodes: one sequence per node of the cycle
SimpleCycles(graph) ==
    { Append(p, p[1]) :
        p \in { q \in UNION { [1..m -> NodesOf(graph)] : m \in 1..Cardinality(NodesOf(graph)) } :
                  /\ \A i, j \in DOMAIN q : i # j => q[i] # q[j]
                  /\ \A i \in 1..(Len(q) - 1) : Edge(graph, q[i], q[i + 1])
                  /\ Edge(graph, q[Len(q)], q[1]) } }

\* no node of graph reaches itself
Acyclic(graph) ==
    \A n \in NodesOf(graph) :
        n \notin Reach(graph, Elements(DictGet(graph, n, <<>>)), {})

\* the graph A -> B, B -> C, C -> A, its keys in any order
Ring(graph) ==
    /\ DictKeys(graph) = { <<"A">>, <<"B">>, <<"C">> }
    /\ Len(graph) = 3
    /\ DictGet(graph, <<"A">>, <<>>) = << <<"B">> >>
    /\ DictGet(graph, <<"B">>, <<>>) = << <<"C">> >>
    /\ DictGet(graph, <<"C">>, <<>>) = << <<"A">> >>

\* detect_cycles has returned, on a graph loaded from a test file
Analysed == analysis_cycles # <<>> /\ config.test_repo_mode

\* C11, as claimed: on the graph A -> B, B -> C, C -> A detect_cycles
\* returns exactly one cycle, [A, B, C, A] or a rotation of it.
C11_RingOneCycle ==
    (Analysed /\ Ring(dependency_graph)) =>
        /\ Len(analysis_cycles[1]) = 1
        /\ analysis_cycles[1][1] \in Rotations(<< <<"A">>, <<"B">>, <<"C">>, <<"A">> >>)

\* C11, amended: on the graph A -> B, B -> C, C -> A detect_cycles returns
\* three sequences, one per key in key order: the rotation of [A, B, C, A]
\* that starts and ends at that key.
C11_RingOneCyclePerKey ==
    (Analysed /\ Ring(dependency_graph)) =>
        /\ Len(analysis_cycles[1]) = 3
        /\ \A i \in 1..3 :
              /\ analysis_cycles[1][i] \in Rotations(<< <<"A">>, <<"B">>, <<"C">>, <<"A">> >>)
              /\ analysis_cycles[1][i][1] = dependency_graph[i][1]

\* detect_cycles has returned the three rotations for the ring with the
\* keys A, B, C in that order
C11_Witness ==
    /\ Analysed
    /\ Ring(dependency_graph)
    /\ analysis_cycles[1] = << << <<"A">>, <<"B">>, <<"C">>, <<"A">> >>,
                               << <<"B">>, <<"C">>, <<"A">>, <<"B">> >>,
                               << <<"C">>, <<"A">>, <<"B">>, <<"C">> >> >>

\* C12: for every simple directed cycle of the graph, the result of
\* detect_cycles holds the cycle in at least one rotation (it holds one of
\* the sequences that start and end at a node of the cycle).
C12_AllSimpleCyclesFound ==
    Analysed =>
        \A c \in SimpleCycles(dependency_graph) :
            \E r \in Rotations(c) : r \in Elements(analysis_cycles[1])

\* C13: on a graph without a directed cycle, a node reached along several
\* paths or not, detect_cycles returns the empty list.
C13_AcyclicNoCycle ==
    (analysis_cycles # <<>> /\ Acyclic(dependency_graph)) => analysis_cycles[1] = <<>>

\* detect_cycles has returned the empty list for an acyclic graph in which C
\* is reached from A along two paths
C13_Witness ==
    /\ Analysed
    /\ Acyclic(dependency_graph)
    /\ Edge(dependency_graph, <<"A">>, <<"B">>)
    /\ Edge(dependency_graph, <<"A">>, <<"C">>)
    /\ Edge(dependency_graph, <<"B">>, <<"C">>)
    /\ analysis_cycles[1] = <<>>

(***************************************************************************)
(* Properties of find_reverse_dependencies on a loaded graph.              *)
(***************************************************************************)
\* find_reverse_dependencies has returned, on a graph loaded from a test file
Reported == pc = "reported" /\ config.test_repo_mode

\* the number of times x occurs in list
Occurrences(list, x) == Cardinality({ i \in DOMAIN list : list[i] = x })

\* C14: on a graph loaded in test mode, every key whose own dependency list
\* holds the target is returned by find_reverse_dependencies exactly once;
\* for {"A": ["B"], "B": []} and the target B the result is ["A"].
C14_ParentsReturnedOnce ==
    Reported =>
        /\ \A k \in DictKeys(dependency_graph) :
              Edge(dependency_graph, k, TargetKey) => Occurrences(reverse_deps, k) = 1
        /\ (/\ dependency_graph = << << <<"A">>, << <<"B">> >> >>, << <<"B">>, <<>> >> >>
            /\ TargetKey = <<"B">>)
           => reverse_deps = << <<"A">> >>

\* find_reverse_dependencies has returned ["A"] for {"A": ["B"], "B": []}
\* and the target B
C14_Witness ==
    /\ Reported
    /\ dependency_graph = << << <<"A">>, << <<"B">> >> >>, << <<"B">>, <<>> >> >>
    /\ TargetKey = <<"B">>
    /\ reverse_deps = << <<"A">> >>

(***************************************************************************)
(* Properties of the graph the registry-mode build stores.                 *)
(***************************************************************************)
\* the part of a key after its last "@"
VersionPart(key) ==
    LET at == CHOOSE i \in DOMAIN key :
                 key[i] = "@" /\ \A j \in (i + 1)..Len(key) : key[j] # "@"
    IN  SubSeq(key, at + 1, Len(key))

\* the registry-mode build is under way or has returned
Building == ~config.test_repo_mode /\ pc \in {"while", "fetch", "for", "done"}

\* C15: after a registry-mode build, no key of the graph and no entry of a
\* dependency list has a version part with a range character, the
\* registries for which a version resolution fails included.
C15_NoSpecifierStored ==
    (pc = "done" /\ ~config.test_repo_mode) =>
        \A k \in NodesOf(dependency_graph) : ~HasRangeChar(VersionPart(k))

\* C16: during one build the graph starts empty and only grows: an entry of
\* the graph, a key and its dependency list, stays as it is at its place,
\* and no key is entered twice.
C16_GraphGrowsOnly ==
    /\ [](pc = "extracted" => dependency_graph = <<>>)
    /\ []((Building /\ visited = {}) => dependency_graph = <<>>)
    /\ [](\A i, j \in DOMAIN dependency_graph :
             i # j => dependency_graph[i][1] # dependency_graph[j][1])
    /\ [][Building =>
             /\ Len(dependency_graph') >= Len(dependency_graph)
             /\ \A i \in DOMAIN dependency_graph :
                   dependency_graph'[i] = dependency_graph[i]]_vars

\* the build has returned a graph of three keys after popping a key that was
\* in the visited set
C16_Witness ==
    /\ pc = "done"
    /\ ~config.test_repo_mode
    /\ Len(dependency_graph) >= 3
    /\ Len(info_calls) = Len(dependency_graph)
    /\ package_key # dependency_graph[Len(dependency_graph)][1]

(***************************************************************************)
(* Properties of the graph queries as operations on the state.             *)
(***************************************************************************)
\* a graph query may be called: the graph is built
Queried == pc \in {"done", "analysed", "reported"}

\* C17: detect_cycles and find_reverse_dependencies leave the graph as it
\* is, a dependency that is no key is looked up as a node without
\* dependencies and is not entered as a key, and a query called again
\* returns what it has returned before.
C17_QueriesLeaveGraph ==
    /\ [][Queried => dependency_graph' = dependency_graph]_vars
    /\ [][(pc = "analysed" /\ pc' = "analysed") =>
             analysis_cycles' = analysis_cycles]_vars
    /\ [][(pc = "reported" /\ pc' = "reported") => reverse_deps' = reverse_deps]_vars
    /\ [](pc = "analysed" => analysis_cycles = << detect_cycles(dependency_graph) >>)
    /\ []((config.test_repo_mode /\ pc \in {"analysed", "reported"}) =>
             dependency_graph = repository.graph)

\* detect_cycles has returned a cycle on a graph with a dependency that is
\* no key of the graph
C17_Witness ==
    /\ pc = "analysed"
    /\ Unexpanded(dependency_graph) # {}
    /\ analysis_cycles[1] # <<>>

(***************************************************************************)
(* Properties of a run of main.                                            *)
(***************************************************************************)
\* C18: a run in registry mode whose configuration is loaded does not end
\* with an error status, whatever request to the registry fails, the one
\* for the root package included.
C18_RegistryFailureAbsorbed ==
    (Loads(config_file) /\ ~config.test_repo_mode) => exit_status # <<1>>

\* the configuration file or, in test mode, the graph file cannot be used
StructuralFailure ==
    \/ ~Loads(config_file)
    \/ config.test_repo_mode /\ repository.status # "ok"

\* C19: when the configuration file is missing or lacks a required
\* parameter, or in test mode the graph file is missing or unparsable, the
\* run can only end with exit status 1; no graph is built, no cycle
\* detection and no export is performed.
C19_StructuralFailureFatal ==
    StructuralFailure =>
        /\ pc \in {"main", "start", "extracted", "exit"}
        /\ pc = "start" => Loads(config_file)
        /\ pc = "exit" => exit_status = <<1>>
        /\ dependency_graph = <<>>
        /\ analysis_cycles = <<>>
        /\ ~exported
        /\ info_calls = <<>>

\* a run in test mode has ended with status 1 on a graph file that cannot be
\* parsed, after the configuration was loaded
C19_Witness ==
    /\ Loads(config_file)
    /\ config.test_repo_mode
    /\ repository.status = "unparsable"
    /\ self_dependencies # <<>>
    /\ pc = "exit"
    /\ exit_status = <<1>>

\* C20: a run in test mode resolves no version and fetches no package
\* information at any step, the extraction of the direct dependencies
\* included; it never enters the registry-mode build, and the graph it
\* analyses is the mapping of the test file.
C20_TestModeOffline ==
    config.test_repo_mode =>
        /\ extract_calls = <<>>
        /\ info_calls = <<>>
        /\ resolve_calls = <<>>
        /\ direct = <<>>
        /\ dist_tags = <<>> /\ published = <<>> /\ manifests = <<>> /\ failures = 0
        /\ pc \notin {"while", "fetch", "for", "resolved", "fetched", "raised"}
        /\ (Queried \/ exit_status = <<0>>) => dependency_graph = repository.graph

\* a run in test mode has ended with status 0 after analysing a graph with
\* a cycle that was loaded from the test file
C20_Witness ==
    /\ config.test_repo_mode
    /\ exit_status = <<0>>
    /\ dependency_graph = repository.graph
    /\ analysis_cycles # <<>>
    /\ analysis_cycles[1] # <<>>

(***************************************************************************)
(* Properties of the failures of get_npm_package_info.                     *)
(***************************************************************************)
\* what tells one failure from another: the class of the exception and the
\* text its message starts with
FailureKind(result) == <<result.raised, result.message[1]>>

\* the published versions that the message of the failure names
Carried(d) ==
    { v \in d.response.versions :
        \E i \in DOMAIN d.result.message : <<d.result.message[i]>> = v }

\* the package is published and the requested version is not
VersionAbsent(d) == d.response.status = "ok" /\ d.version \notin d.response.versions

\* C21: when the package exists and the requested version is not published,
\* get_npm_package_info fails with a failure that differs in kind from the
\* one of an unknown package and from the one of a transport error, and
\* that carries the available versions (up to five of them).
C21_VersionNotFoundDistinct ==
    \A i \in DOMAIN fetched :
        LET d == fetched[i]
            unknown   == [status |-> "http_404", versions |-> {}, manifest |-> <<>>]
            transport == [status |-> "exception", versions |-> {}, manifest |-> <<>>]
        IN  VersionAbsent(d) =>
                /\ d.result.raised # "none"
                /\ FailureKind(d.result) # FailureKind(get_npm_package_info(unknown, d.version))
                /\ FailureKind(d.result) # FailureKind(get_npm_package_info(transport, d.version))
                /\ Carried(d) = d.response.versions

(***************************************************************************)
(* Properties of the work stack of the build.                              *)
(***************************************************************************)
\* the step takes a declared dependency and pushes it onto the work stack
Pushes == pc = "for" /\ pc' = "for" /\ Len(stack') = Len(stack) + 1

\* C22: when the build pushes a dependency onto the work stack, the pushed
\* (name, version) pair makes the key that the step appends to the
\* dependency list of the parent: the version is the one resolved for this
\* dependency when its specifier is a range, and its declared specifier
\* when it is concrete.
C22_PushedIsAppended ==
    [][Pushes =>
          LET pushed == stack'[Len(stack')]
              declared == dependencies[dep_i]
          IN  /\ pushed[1] = declared[1]
              /\ PackageKey(pushed[1], pushed[2]) =
                    resolved_dependencies'[Len(resolved_dependencies')]
              /\ ~HasRangeChar(declared[2]) => pushed[2] = declared[2]]_vars

(***************************************************************************)
(* Properties of the sequences detect_cycles returns and of the            *)
(* traversals of the two graph queries.                                    *)
(***************************************************************************)
\* no element occurs twice in list
NoRepeat(list) == \A i, j \in DOMAIN list : i # j => list[i] # list[j]

\* C23: every sequence detect_cycles returns is a simple cycle of the
\* graph: it has at least two elements, starts and ends at the same node,
\* every consecutive pair is an edge, and no node but the first occurs twice.
C23_CyclesAreSimple ==
    analysis_cycles # <<>> =>
        \A n \in DOMAIN analysis_cycles[1] :
            LET c == analysis_cycles[1][n]
            IN  /\ Len(c) >= 2
                /\ c[1] = c[Len(c)]
                /\ \A i \in 1..(Len(c) - 1) : Edge(dependency_graph, c[i], c[i + 1])
                /\ NoRepeat(SubSeq(c, 1, Len(c) - 1))

\* detect_cycles has returned a cycle that the traversal from the first key
\* has found and that does not pass the first key
C23_Witness ==
    /\ Analysed
    /\ analysis_cycles[1] # <<>>
    /\ Len(analysis_cycles[1][1]) = 3
    /\ dependency_graph[1][1] \notin Elements(analysis_cycles[1][1])
    /\ analysis_cycles[1][1][1] \in Elements(dependency_graph[1][2])

\* the nodes the traversal of detect_cycles from the k-th key expands
CyclesExpandedFrom(k) ==
    CyclesExpanded(dependency_graph,
                   << <<dependency_graph[k][1], <<dependency_graph[k][1]>> >> >>, {}, <<>>)

\* the packages the traversal of find_reverse_dependencies from the k-th
\* key expands
ReverseExpandedFrom(k) ==
    ReverseExpanded(dependency_graph, TargetKey, <<dependency_graph[k][1]>>, {}, <<>>)

\* C24: on every graph, with cycles, self-loops, duplicate edges and fan-in,
\* the traversal of detect_cycles and the one of find_reverse_dependencies
\* from a start key end after expanding every node at most once.
C24_ExpandedAtMostOnce ==
    Analysed =>
        \A k \in DOMAIN dependency_graph :
            /\ NoRepeat(CyclesExpandedFrom(k))
            /\ Elements(CyclesExpandedFrom(k)) \subseteq NodesOf(dependency_graph)
            /\ NoRepeat(ReverseExpandedFrom(k))
            /\ Elements(ReverseExpandedFrom(k)) \subseteq NodesOf(dependency_graph)

\* detect_cycles has returned on the complete graph on three nodes, where
\* the traversal from every key has expanded the three nodes
C24_Witness ==
    /\ Analysed
    /\ \A x, y \in Nodes : x # y => Edge(dependency_graph, x, y)
    /\ \A k \in DOMAIN dependency_graph : Len(CyclesExpandedFrom(k)) = 3
    /\ \A k \in DOMAIN dependency_graph : Len(ReverseExpandedFrom(k)) = 3

\* the packages the traversals of find_reverse_dependencies expand, from the
\* k-th key on, in the order of the traversals
RECURSIVE Discovered(_)
Discovered(k) ==
    IF k > Len(dependency_graph) THEN <<>>
    ELSE ReverseExpandedFrom(k) \o Discovered(k + 1)

\* list without the later occurrences of its elements
RECURSIVE FirstOccurrences(_, _)
FirstOccurrences(list, kept) ==
    IF list = <<>> THEN kept
    ELSE FirstOccurrences(Tail(list),
                          IF Head(list) \in Elements(kept) THEN kept
                          ELSE Append(kept, Head(list)))

\* C25: every element find_reverse_dependencies returns is a key of the
\* graph whose own dependency list holds the target; the result has no
\* duplicates and lists the parents in the order in which the traversals,
\* one per key in key order, first expand them.
C25_ParentsInDiscoveryOrder ==
    Reported =>
        /\ \A i \in DOMAIN reverse_deps :
              /\ reverse_deps[i] \in DictKeys(dependency_graph)
              /\ Edge(dependency_graph, reverse_deps[i], TargetKey)
        /\ NoRepeat(reverse_deps)
        /\ reverse_deps =
              FirstOccurrences(
                  SelectSeq(Discovered(1),
                            LAMBDA x : Edge(dependency_graph, x, TargetKey)), <<>>)

\* find_reverse_dependencies has returned two parents of the target, the
\* first of them found in the traversal from a key that is no parent
C25_Witness ==
    /\ Reported
    /\ Len(reverse_deps) = 2
    /\ ~Edge(dependency_graph, dependency_graph[1][1], TargetKey)
    /\ reverse_deps[1] # dependency_graph[2][1]

\* the node lies on a directed cycle of graph
OnCycle(graph, n) == n \in Reach(graph, Elements(DictGet(graph, n, <<>>)), {})

\* C26: when the graph has a directed cycle, a self-loop included, the
\* result of detect_cycles is not empty and holds, for every key that lies
\* on a cycle, a sequence that starts and ends at that key; the result never
\* holds the same sequence twice.
C26_CycleFromEveryKey ==
    analysis_cycles # <<>> =>
        /\ ~Acyclic(dependency_graph) => analysis_cycles[1] # <<>>
        /\ \A n \in DictKeys(dependency_graph) :
              OnCycle(dependency_graph, n) =>
                  \E i \in DOMAIN analysis_cycles[1] :
                      /\ analysis_cycles[1][i][1] = n
                      /\ analysis_cycles[1][i][Len(analysis_cycles[1][i])] = n
        /\ NoRepeat(analysis_cycles[1])

\* detect_cycles has returned on a graph with two keys on a cycle, the
\* second one on no cycle through the first, and a key on no cycle
C26_Witness ==
    /\ Analysed
    /\ \E n, m \in DictKeys(dependency_graph) :
          /\ n # m
          /\ OnCycle(dependency_graph, n)
          /\ OnCycle(dependency_graph, m)
          /\ m \notin Reach(dependency_graph, {n}, {})
    /\ \E n \in DictKeys(dependency_graph) : ~OnCycle(dependency_graph, n)
    /\ Len(analysis_cycles[1]) >= 2

====
